---- MODULE Spec2Model ----
(***************************************************************************)
(* Model of magma's mail message persistence layer                         *)
(* (src/objects/mail/store_message.c): mail_store_message_data,            *)
(* mail_store_message, mail_copy_message and mail_move_message, run step   *)
(* by step against a metadata store (rows, transactions, auto-increment    *)
(* ids) and a blob store (files and their directories).                    *)
(***************************************************************************)
EXTENDS Integers, Sequences, FiniteSets, TLC

\* ------------------------------------------------------------------ bounds
\* Highest message id the metadata store hands out in a run.
MaxId == 3

Ids == 1..MaxId
\* The folders a message row can point at.
Folders == {1, 2}
\* Raw message bodies handed to mail_store_message.
Bodies == {"m1"}
\* The workers that call into this layer.
Workers == {"w1"}

VARIABLES
    rows,     \* committed metadata rows: id -> folder, 0 when there is no row
    nextId,   \* last id the metadata store assigned (auto-increment, never reused)
    tran,     \* per worker: the database side of its transaction
    files,    \* blob store: id -> the file at mail_message_path(id)
    dirs,     \* the message directories that exist
    loc       \* per worker: the running call's arguments, locals and position

vars == <<rows, nextId, tran, files, dirs, loc>>

\* --------------------------------------------------------- blob store
NoFile == [present |-> FALSE, hdr |-> <<>>, data |-> <<>>]
EmptyFile == [present |-> TRUE, hdr |-> <<>>, data |-> <<>>]

\* mail_message_path shards the ids over directories.
DirOf(id) == (id + 1) \div 2

\* The on-disk header mail_store_message_data builds.
Header(flags) == <<"FMESSAGE_MAGIC_1", "FMESSAGE_MAGIC_2", 0, flags>>

\* The collaborators' output for a body.
Encrypt(body) == <<"prime", body>>
Compress(body) == <<"lzo", body>>

\* unlink(path)
Unlink(f, id) == [f EXCEPT ![id] = NoFile]

\* How open(path, O_CREAT | O_WRONLY | O_TRUNC | O_SYNC) can end for id.
OpenOutcomes(id) ==
    IF DirOf(id) \notin dirs THEN {"ENOENT"} ELSE {"ok", "EACCES"}

\* How link(origpath, copypath) can end.
LinkOutcomes(original, id) ==
    IF ~files[original].present \/ DirOf(id) \notin dirs THEN {"ENOENT"}
    ELSE IF files[id].present THEN {"EEXIST"}
    ELSE {"ok", "EACCES"}

\* --------------------------------------------------------- metadata store
NoTran == [open |-> FALSE, op |-> "none", id |-> 0, folder |-> 0]

\* tran_start: a fresh transaction with nothing pending.
TranStart == [open |-> TRUE, op |-> "none", id |-> 0, folder |-> 0]

\* tran_rollback: the pending statement is dropped.
TranRollback(t) == NoTran

\* tran_commit succeeding: the pending statement becomes visible.
TranApply(r, t) ==
    IF t.op \in {"insert", "update"} THEN [r EXCEPT ![t.id] = t.folder] ELSE r

\* Rows an update of (messagenum, source) matches.
MatchCount(messagenum, source) ==
    IF rows[messagenum] # 0 /\ rows[messagenum] = source THEN 1 ELSE 0

\* mail_db_update_message_folder: -1 on a statement error, otherwise the
\* affected-row count; 2 stands for a count above one (duplicated rows).
UpdateResults(messagenum, source) == {-1, 2, MatchCount(messagenum, source)}

\* --------------------------------------------------------- worker locals
Idle == [kind |-> "none", pc |-> "idle", signet |-> FALSE, message |-> "m1",
         folder |-> 0, original |-> 0, source |-> 0, target |-> 0,
         messagenum |-> 0, transaction |-> -1, flags |-> {},
         store_result |-> FALSE, path |-> FALSE, fd |-> -1, state |-> -1,
         errno |-> "none", result |-> 0, ret |-> 0, log |-> <<>>,
         pre |-> NoFile]

Ready(p) == loc[p].pc \in {"idle", "done"}

\* One entry per call into a collaborator or the filesystem.
Log(l, call, ok) == Append(l, [call |-> call, ok |-> ok, id |-> 0])

\* The entry of an insert that returned id.
LogInsert(l, id) == Append(l, [call |-> "insert", ok |-> TRUE, id |-> id])

Set(p, r) == loc' = [loc EXCEPT ![p] = r]

Init ==
    /\ rows = [i \in Ids |-> 0]
    /\ nextId = 0
    /\ tran = [p \in Workers |-> NoTran]
    /\ files = [i \in Ids |-> NoFile]
    /\ dirs = {}
    /\ loc = [p \in Workers |-> Idle]

\* ------------------------------------------------- mail_store_message
\* Lines 113-131: encrypt for the signet, or compress.
StorePrepare(p) ==
    /\ Ready(p)
    /\ \E signet \in BOOLEAN, folder \in Folders, message \in Bodies, ok \in BOOLEAN :
         LET l == [Idle EXCEPT !.kind = "store", !.signet = signet,
                               !.folder = folder, !.message = message,
                               !.log = Log(<<>>, IF signet THEN "encrypt" ELSE "compress", ok)]
         IN  IF ok
             THEN Set(p, [l EXCEPT !.pc = "st_begin",
                             !.flags = IF signet THEN {"ENCRYPTED"} ELSE {"COMPRESSED"}])
             ELSE Set(p, [l EXCEPT !.pc = "done", !.ret = 0])
    /\ UNCHANGED <<rows, nextId, tran, files, dirs>>

\* Lines 134-140: tran_start.
StoreBegin(p) ==
    /\ loc[p].pc = "st_begin"
    /\ \E ok \in BOOLEAN :
         LET l == [loc[p] EXCEPT !.log = Log(@, "begin", ok)]
         IN  IF ok
             THEN /\ Set(p, [l EXCEPT !.pc = "st_insert", !.transaction = 1])
                  /\ tran' = [tran EXCEPT ![p] = TranStart]
             ELSE /\ Set(p, [l EXCEPT !.pc = "done", !.ret = 0])
                  /\ UNCHANGED tran
    /\ UNCHANGED <<rows, nextId, files, dirs>>

\* Mutant: the insert hands out an id without consuming it.
StoreInsertReusesId(p) ==
    /\ loc[p].pc = "st_insert"
    /\ \/ /\ nextId < MaxId
          /\ UNCHANGED nextId
          /\ tran' = [tran EXCEPT ![p] = [@ EXCEPT !.op = "insert", !.id = nextId + 1,
                                                  !.folder = loc[p].folder]]
          /\ Set(p, [loc[p] EXCEPT !.pc = "sd_path", !.messagenum = nextId + 1,
                                   !.log = LogInsert(@, nextId + 1)])
       \/ /\ tran' = [tran EXCEPT ![p] = TranRollback(@)]
          /\ Set(p, [loc[p] EXCEPT !.pc = "done", !.ret = 0, !.messagenum = 0,
                                   !.log = Log(Log(@, "insert", FALSE), "rollback", TRUE)])
          /\ UNCHANGED nextId
    /\ UNCHANGED <<rows, files, dirs>>

\* Lines 142-149: mail_db_insert_message; a zero id rolls back.
StoreInsert(p) ==
    /\ loc[p].pc = "st_insert"
    /\ \/ /\ nextId < MaxId
          /\ nextId' = nextId + 1
          /\ tran' = [tran EXCEPT ![p] = [@ EXCEPT !.op = "insert", !.id = nextId + 1,
                                                  !.folder = loc[p].folder]]
          /\ Set(p, [loc[p] EXCEPT !.pc = "sd_path", !.messagenum = nextId + 1,
                                   !.log = LogInsert(@, nextId + 1)])
       \/ /\ tran' = [tran EXCEPT ![p] = TranRollback(@)]
          /\ Set(p, [loc[p] EXCEPT !.pc = "done", !.ret = 0, !.messagenum = 0,
                                   !.log = Log(Log(@, "insert", FALSE), "rollback", TRUE)])
          /\ UNCHANGED nextId
    /\ UNCHANGED <<rows, files, dirs>>

\* ------------------------------------------- mail_store_message_data
\* Where mail_store_message_data returns to.
DataReturn(l, result, path) ==
    [l EXCEPT !.pc = IF l.kind = "data" THEN "done" ELSE "st_check",
              !.store_result = result, !.path = path]

\* Lines 25-39: the header, *pathptr = NULL, mail_message_path.
DataPath(p) ==
    /\ loc[p].pc = "sd_path"
    /\ \E ok \in BOOLEAN :
         IF ok
         THEN Set(p, [loc[p] EXCEPT !.pc = "sd_open", !.path = FALSE,
                                  !.pre = files[loc[p].messagenum]])
         ELSE Set(p, DataReturn([loc[p] EXCEPT !.pre = files[loc[p].messagenum]],
                                FALSE, FALSE))
    /\ UNCHANGED <<rows, nextId, tran, files, dirs>>

\* Mutant: only a missing directory leads to mail_create_directory; any
\* other failure of the first open returns false at once.
DataOpenOnlyMissingDirectory(p) ==
    /\ loc[p].pc = "sd_open"
    /\ \E out \in OpenOutcomes(loc[p].messagenum) :
         IF out = "ok"
         THEN /\ files' = [files EXCEPT ![loc[p].messagenum] = EmptyFile]
              /\ Set(p, [loc[p] EXCEPT !.pc = "sd_write", !.fd = 3,
                                       !.log = Log(@, "open", TRUE)])
         ELSE IF out = "ENOENT"
         THEN /\ Set(p, [loc[p] EXCEPT !.pc = "sd_mkdir", !.fd = -1, !.errno = out,
                                       !.log = Log(@, "open", FALSE)])
              /\ UNCHANGED files
         ELSE /\ Set(p, DataReturn([loc[p] EXCEPT !.fd = -1, !.errno = out,
                                                  !.log = Log(@, "open", FALSE)],
                                   FALSE, FALSE))
              /\ UNCHANGED files
    /\ UNCHANGED <<rows, nextId, tran, dirs>>

\* Line 42: the first open.
DataOpen(p) ==
    /\ loc[p].pc = "sd_open"
    /\ \E out \in OpenOutcomes(loc[p].messagenum) :
         IF out = "ok"
         THEN /\ files' = [files EXCEPT ![loc[p].messagenum] = EmptyFile]
              /\ Set(p, [loc[p] EXCEPT !.pc = "sd_write", !.fd = 3,
                                       !.log = Log(@, "open", TRUE)])
         ELSE /\ Set(p, [loc[p] EXCEPT !.pc = "sd_mkdir", !.fd = -1, !.errno = out,
                                       !.log = Log(@, "open", FALSE)])
              /\ UNCHANGED files
    /\ UNCHANGED <<rows, nextId, tran, dirs>>

\* Line 44: mail_create_directory after a failed open; failure leaves fd < 0
\* and lines 51-55 return false.
DataMkdir(p) ==
    /\ loc[p].pc = "sd_mkdir"
    /\ \E ok \in BOOLEAN :
         IF ok
         THEN /\ dirs' = dirs \cup {DirOf(loc[p].messagenum)}
              /\ Set(p, [loc[p] EXCEPT !.pc = "sd_open2", !.log = Log(@, "mkdir", TRUE)])
         ELSE /\ Set(p, DataReturn([loc[p] EXCEPT !.log = Log(@, "mkdir", FALSE)],
                                   FALSE, FALSE))
              /\ UNCHANGED dirs
    /\ UNCHANGED <<rows, nextId, tran, files>>

\* Lines 45-55: the second open; fd < 0 returns false.
DataReopen(p) ==
    /\ loc[p].pc = "sd_open2"
    /\ \E out \in OpenOutcomes(loc[p].messagenum) :
         IF out = "ok"
         THEN /\ files' = [files EXCEPT ![loc[p].messagenum] = EmptyFile]
              /\ Set(p, [loc[p] EXCEPT !.pc = "sd_write", !.fd = 3,
                                       !.log = Log(@, "open", TRUE)])
         ELSE /\ Set(p, DataReturn([loc[p] EXCEPT !.fd = -1, !.errno = out,
                                                  !.log = Log(@, "open", FALSE)],
                                   FALSE, FALSE))
              /\ UNCHANGED files
    /\ UNCHANGED <<rows, nextId, tran, dirs>>

\* Mutant: the compressed body is handed over even when one was encrypted.
PayloadAlwaysCompressed(l) == Compress(l.message)

\* The payload handed to mail_store_message_data (lines 152-153).
Payload(l) == IF l.signet THEN Encrypt(l.message) ELSE Compress(l.message)

\* Mutant: a short write returns false and leaves the file behind.
DataWriteNoUnlink(p) ==
    /\ loc[p].pc = "sd_write"
    /\ \/ /\ files' = [files EXCEPT ![loc[p].messagenum] =
                           [@ EXCEPT !.hdr = Header(loc[p].flags), !.data = Payload(loc[p])]]
          /\ Set(p, [loc[p] EXCEPT !.pc = "sd_fsync", !.log = Log(@, "write", TRUE)])
       \/ /\ UNCHANGED files
          /\ Set(p, DataReturn([loc[p] EXCEPT !.fd = -1, !.log = Log(@, "write", FALSE)],
                               FALSE, FALSE))
    /\ UNCHANGED <<rows, nextId, tran, dirs>>

\* Lines 57-65: the header write, then the payload write; a short write
\* closes, unlinks and returns false.
DataWrite(p) ==
    /\ loc[p].pc = "sd_write"
    /\ \/ /\ files' = [files EXCEPT ![loc[p].messagenum] =
                           [@ EXCEPT !.hdr = Header(loc[p].flags), !.data = Payload(loc[p])]]
          /\ Set(p, [loc[p] EXCEPT !.pc = "sd_fsync", !.log = Log(@, "write", TRUE)])
       \/ /\ files' = Unlink(files, loc[p].messagenum)
          /\ Set(p, DataReturn([loc[p] EXCEPT !.fd = -1,
                                   !.log = Log(Log(@, "write", FALSE), "unlink", TRUE)],
                               FALSE, FALSE))
    /\ UNCHANGED <<rows, nextId, tran, dirs>>

\* Mutant: a failed fsync returns false and leaves the file behind.
DataFsyncNoUnlink(p) ==
    /\ loc[p].pc = "sd_fsync"
    /\ \/ Set(p, [loc[p] EXCEPT !.pc = "sd_close", !.log = Log(@, "fsync", TRUE)])
       \/ Set(p, DataReturn([loc[p] EXCEPT !.fd = -1, !.log = Log(@, "fsync", FALSE)],
                            FALSE, FALSE))
    /\ UNCHANGED <<rows, nextId, tran, files, dirs>>

\* Lines 67-74: fsync; failure closes, unlinks and returns false.
DataFsync(p) ==
    /\ loc[p].pc = "sd_fsync"
    /\ \/ /\ Set(p, [loc[p] EXCEPT !.pc = "sd_close", !.log = Log(@, "fsync", TRUE)])
          /\ UNCHANGED files
       \/ /\ files' = Unlink(files, loc[p].messagenum)
          /\ Set(p, DataReturn([loc[p] EXCEPT !.fd = -1,
                                   !.log = Log(Log(@, "fsync", FALSE), "unlink", TRUE)],
                               FALSE, FALSE))
    /\ UNCHANGED <<rows, nextId, tran, dirs>>

\* Lines 76-88: close; failure unlinks and returns false, success hands the
\* path back and returns true.
DataClose(p) ==
    /\ loc[p].pc = "sd_close"
    /\ \/ /\ Set(p, DataReturn([loc[p] EXCEPT !.fd = -1, !.log = Log(@, "close", TRUE)],
                               TRUE, TRUE))
          /\ UNCHANGED files
       \/ /\ files' = Unlink(files, loc[p].messagenum)
          /\ Set(p, DataReturn([loc[p] EXCEPT !.fd = -1,
                                   !.log = Log(Log(@, "close", FALSE), "unlink", TRUE)],
                               FALSE, FALSE))
    /\ UNCHANGED <<rows, nextId, tran, dirs>>

\* ------------------------------------------------- mail_store_message
\* Mutant: the failed disk operation returns without the rollback.
StoreDiskFailedNoRollback(p) ==
    /\ UNCHANGED tran
    /\ files' = IF loc[p].path THEN Unlink(files, loc[p].messagenum) ELSE files
    /\ Set(p, [loc[p] EXCEPT !.pc = "done", !.ret = 0,
                  !.log = IF loc[p].path THEN Log(@, "unlink", TRUE) ELSE @])

\* Lines 158-169: a failed disk operation rolls back, unlinks a path that
\* was handed back, and returns 0.
StoreDiskFailed(p) ==
    /\ tran' = [tran EXCEPT ![p] = TranRollback(@)]
    /\ files' = IF loc[p].path THEN Unlink(files, loc[p].messagenum) ELSE files
    /\ Set(p, [loc[p] EXCEPT !.pc = "done", !.ret = 0,
                  !.log = IF loc[p].path
                          THEN Log(Log(@, "rollback", TRUE), "unlink", TRUE)
                          ELSE Log(@, "rollback", TRUE)])

\* Mutant: the result of the disk operation is not looked at.
StoreCheckIgnoresResult(p) ==
    /\ loc[p].pc = "st_check"
    /\ Set(p, [loc[p] EXCEPT !.pc = "st_commit"])
    /\ UNCHANGED <<rows, nextId, tran, files, dirs>>

\* Lines 155-169: the check of the disk operation's result.
StoreCheck(p) ==
    /\ loc[p].pc = "st_check"
    /\ IF ~loc[p].store_result \/ ~loc[p].path
       THEN StoreDiskFailed(p)
       ELSE /\ Set(p, [loc[p] EXCEPT !.pc = "st_commit"])
            /\ UNCHANGED <<tran, files>>
    /\ UNCHANGED <<rows, nextId, dirs>>

\* Mutant: the failed commit leaves the blob in place, as the copy does.
StoreCommitFailedKeepsBlob(p) ==
    /\ tran' = [tran EXCEPT ![p] = NoTran]
    /\ Set(p, [loc[p] EXCEPT !.pc = "done", !.ret = 0, !.result = 1,
                  !.log = Log(@, "commit", FALSE)])
    /\ UNCHANGED <<rows, files>>

\* Mutant: the failed commit cleans up but returns the id.
StoreCommitFailedReturnsId(p) ==
    /\ tran' = [tran EXCEPT ![p] = NoTran]
    /\ files' = Unlink(files, loc[p].messagenum)
    /\ Set(p, [loc[p] EXCEPT !.pc = "done", !.ret = loc[p].messagenum, !.result = 1,
                  !.log = Log(Log(@, "commit", FALSE), "unlink", TRUE)])
    /\ UNCHANGED rows

\* Lines 171-177: a failed commit unlinks the blob and returns 0.
StoreCommitFailed(p) ==
    /\ tran' = [tran EXCEPT ![p] = NoTran]
    /\ files' = Unlink(files, loc[p].messagenum)
    /\ Set(p, [loc[p] EXCEPT !.pc = "done", !.ret = 0, !.result = 1,
                  !.log = Log(Log(@, "commit", FALSE), "unlink", TRUE)])
    /\ UNCHANGED rows

\* Lines 179-180: the id of the inserted row is returned.
StoreCommitted(p) ==
    /\ rows' = TranApply(rows, tran[p])
    /\ tran' = [tran EXCEPT ![p] = NoTran]
    /\ Set(p, [loc[p] EXCEPT !.pc = "done", !.ret = loc[p].messagenum, !.result = 0,
                  !.log = Log(@, "commit", TRUE)])
    /\ UNCHANGED files

\* Lines 171-181: tran_commit.
StoreCommit(p) ==
    /\ loc[p].pc = "st_commit"
    /\ (StoreCommitted(p) \/ StoreCommitFailed(p))
    /\ UNCHANGED <<nextId, dirs>>
\* -------------------------------------------------- mail_copy_message
\* Mutant: the original is opened but the descriptor is not checked.
CopyPrepareNoCheck(p) ==
    /\ Ready(p)
    /\ \E original \in Ids, folder \in Folders, ok \in BOOLEAN :
         LET l == [Idle EXCEPT !.kind = "copy", !.original = original, !.folder = folder]
         IN  Set(p, [l EXCEPT !.pc = "cp_begin",
                        !.log = Log(@, "open_orig", ok /\ files[original].present)])
    /\ UNCHANGED <<rows, nextId, tran, files, dirs>>

\* Lines 202-215: build the original's path and open it to see it exists.
CopyPrepare(p) ==
    /\ Ready(p)
    /\ \E original \in Ids, folder \in Folders, ok \in BOOLEAN :
         LET l == [Idle EXCEPT !.kind = "copy", !.original = original, !.folder = folder]
         IN  IF ok /\ files[original].present
             THEN Set(p, [l EXCEPT !.pc = "cp_begin", !.log = Log(@, "open_orig", TRUE)])
             ELSE Set(p, [l EXCEPT !.pc = "done", !.ret = 0,
                             !.log = Log(@, "open_orig", FALSE)])
    /\ UNCHANGED <<rows, nextId, tran, files, dirs>>

\* Lines 217-222: tran_start.
CopyBegin(p) ==
    /\ loc[p].pc = "cp_begin"
    /\ \E ok \in BOOLEAN :
         LET l == [loc[p] EXCEPT !.log = Log(@, "begin", ok)]
         IN  IF ok
             THEN /\ Set(p, [l EXCEPT !.pc = "cp_insert", !.transaction = 1])
                  /\ tran' = [tran EXCEPT ![p] = TranStart]
             ELSE /\ Set(p, [l EXCEPT !.pc = "done", !.ret = 0])
                  /\ UNCHANGED tran
    /\ UNCHANGED <<rows, nextId, files, dirs>>

\* Lines 224-238: mail_db_insert_duplicate_message, then the copy's path;
\* a zero id or a NULL path rolls back.
CopyInsert(p) ==
    /\ loc[p].pc = "cp_insert"
    /\ \/ /\ nextId < MaxId
          /\ nextId' = nextId + 1
          /\ \/ /\ tran' = [tran EXCEPT ![p] = [@ EXCEPT !.op = "insert", !.id = nextId + 1,
                                                        !.folder = loc[p].folder]]
                /\ Set(p, [loc[p] EXCEPT !.pc = "cp_link", !.messagenum = nextId + 1,
                                         !.log = LogInsert(@, nextId + 1)])
             \/ /\ tran' = [tran EXCEPT ![p] = TranRollback(@)]
                /\ Set(p, [loc[p] EXCEPT !.pc = "done", !.ret = 0, !.messagenum = nextId + 1,
                              !.log = Log(LogInsert(@, nextId + 1), "rollback", TRUE)])
       \/ /\ tran' = [tran EXCEPT ![p] = TranRollback(@)]
          /\ Set(p, [loc[p] EXCEPT !.pc = "done", !.ret = 0, !.messagenum = 0,
                                   !.log = Log(Log(@, "insert", FALSE), "rollback", TRUE)])
          /\ UNCHANGED nextId
    /\ UNCHANGED <<rows, files, dirs>>

\* link(origpath, copypath): the copy shares the original's contents.
Link(f, original, id) == [f EXCEPT ![id] = f[original]]

\* Line 241: the first link.
CopyLink(p) ==
    /\ loc[p].pc = "cp_link"
    /\ \E out \in LinkOutcomes(loc[p].original, loc[p].messagenum) :
         IF out = "ok"
         THEN /\ files' = Link(files, loc[p].original, loc[p].messagenum)
              /\ Set(p, [loc[p] EXCEPT !.pc = "cp_check", !.state = 0,
                                       !.log = Log(@, "link", TRUE)])
         ELSE /\ Set(p, [loc[p] EXCEPT !.pc = "cp_mkdir", !.state = -1, !.errno = out,
                                       !.log = Log(@, "link", FALSE)])
              /\ UNCHANGED files
    /\ UNCHANGED <<rows, nextId, tran, dirs>>

\* Mutant: the link is tried again whatever mail_create_directory returned.
CopyMkdirAlwaysRetries(p) ==
    /\ loc[p].pc = "cp_mkdir"
    /\ \E ok \in BOOLEAN :
         IF ok
         THEN /\ dirs' = dirs \cup {DirOf(loc[p].messagenum)}
              /\ Set(p, [loc[p] EXCEPT !.pc = "cp_link2", !.log = Log(@, "mkdir", TRUE)])
         ELSE /\ Set(p, [loc[p] EXCEPT !.pc = "cp_link2", !.log = Log(@, "mkdir", FALSE)])
              /\ UNCHANGED dirs
    /\ UNCHANGED <<rows, nextId, tran, files>>

\* Line 243: mail_create_directory after a failed link.
CopyMkdir(p) ==
    /\ loc[p].pc = "cp_mkdir"
    /\ \E ok \in BOOLEAN :
         IF ok
         THEN /\ dirs' = dirs \cup {DirOf(loc[p].messagenum)}
              /\ Set(p, [loc[p] EXCEPT !.pc = "cp_link2", !.log = Log(@, "mkdir", TRUE)])
         ELSE /\ Set(p, [loc[p] EXCEPT !.pc = "cp_check", !.log = Log(@, "mkdir", FALSE)])
              /\ UNCHANGED dirs
    /\ UNCHANGED <<rows, nextId, tran, files>>

\* Line 244: the second link.
CopyRelink(p) ==
    /\ loc[p].pc = "cp_link2"
    /\ \E out \in LinkOutcomes(loc[p].original, loc[p].messagenum) :
         IF out = "ok"
         THEN /\ files' = Link(files, loc[p].original, loc[p].messagenum)
              /\ Set(p, [loc[p] EXCEPT !.pc = "cp_check", !.state = 0,
                                       !.log = Log(@, "link", TRUE)])
         ELSE /\ Set(p, [loc[p] EXCEPT !.pc = "cp_check", !.state = -1, !.errno = out,
                                       !.log = Log(@, "link", FALSE)])
              /\ UNCHANGED files
    /\ UNCHANGED <<rows, nextId, tran, dirs>>

\* Lines 249-256: without a link the transaction is rolled back.
CopyCheck(p) ==
    /\ loc[p].pc = "cp_check"
    /\ IF loc[p].state # 0
       THEN /\ tran' = [tran EXCEPT ![p] = TranRollback(@)]
            /\ Set(p, [loc[p] EXCEPT !.pc = "done", !.ret = 0,
                                     !.log = Log(@, "rollback", TRUE)])
       ELSE /\ Set(p, [loc[p] EXCEPT !.pc = "cp_commit"])
            /\ UNCHANGED tran
    /\ UNCHANGED <<rows, nextId, files, dirs>>

\* Mutant: the failed commit removes the link, as the store removes its blob.
CopyCommitFailedUnlinks(p) ==
    /\ tran' = [tran EXCEPT ![p] = NoTran]
    /\ files' = Unlink(files, loc[p].messagenum)
    /\ Set(p, [loc[p] EXCEPT !.pc = "done", !.ret = 0, !.result = 1,
                  !.log = Log(Log(@, "commit", FALSE), "unlink", TRUE)])
    /\ UNCHANGED rows

\* Lines 258-264: a failed commit returns 0; the link stays.
CopyCommitFailed(p) ==
    /\ tran' = [tran EXCEPT ![p] = NoTran]
    /\ Set(p, [loc[p] EXCEPT !.pc = "done", !.ret = 0, !.result = 1,
                  !.log = Log(@, "commit", FALSE)])
    /\ UNCHANGED <<rows, files>>

\* Lines 266-269: the id of the copy is returned.
CopyCommitted(p) ==
    /\ rows' = TranApply(rows, tran[p])
    /\ tran' = [tran EXCEPT ![p] = NoTran]
    /\ Set(p, [loc[p] EXCEPT !.pc = "done", !.ret = loc[p].messagenum, !.result = 0,
                  !.log = Log(@, "commit", TRUE)])
    /\ UNCHANGED files

\* Lines 258-270: tran_commit.
CopyCommit(p) ==
    /\ loc[p].pc = "cp_commit"
    /\ (CopyCommitted(p) \/ CopyCommitFailed(p))
    /\ UNCHANGED <<nextId, dirs>>

\* -------------------------------------------------- mail_move_message
\* Lines 285-289: tran_start; failure returns -1.
MoveBegin(p) ==
    /\ Ready(p)
    /\ \E messagenum \in Ids, source \in Folders, target \in Folders, ok \in BOOLEAN :
         LET l == [Idle EXCEPT !.kind = "move", !.messagenum = messagenum,
                               !.source = source, !.target = target,
                               !.log = Log(@, "begin", ok)]
         IN  IF ok
             THEN /\ Set(p, [l EXCEPT !.pc = "mv_update", !.transaction = 1])
                  /\ tran' = [tran EXCEPT ![p] = TranStart]
             ELSE /\ Set(p, [l EXCEPT !.pc = "done", !.ret = -1])
                  /\ UNCHANGED tran
    /\ UNCHANGED <<rows, nextId, files, dirs>>

\* Mutant: a result other than 1 returns without the rollback.
MoveUpdateNoRollback(p) ==
    /\ loc[p].pc = "mv_update"
    /\ \E result \in UpdateResults(loc[p].messagenum, loc[p].source) :
         IF result # 1
         THEN /\ UNCHANGED tran
              /\ Set(p, [loc[p] EXCEPT !.pc = "done", !.result = result, !.ret = result,
                            !.log = Log(@, "update", FALSE)])
         ELSE /\ tran' = [tran EXCEPT ![p] = [@ EXCEPT !.op = "update",
                                 !.id = loc[p].messagenum, !.folder = loc[p].target]]
              /\ Set(p, [loc[p] EXCEPT !.pc = "mv_commit", !.result = result,
                            !.log = Log(@, "update", TRUE)])
    /\ UNCHANGED <<rows, nextId, files, dirs>>

\* Mutant: every result other than 1 is returned as the error -1.
MoveUpdateNotFoundIsError(p) ==
    /\ loc[p].pc = "mv_update"
    /\ \E result \in UpdateResults(loc[p].messagenum, loc[p].source) :
         IF result # 1
         THEN /\ tran' = [tran EXCEPT ![p] = TranRollback(@)]
              /\ Set(p, [loc[p] EXCEPT !.pc = "done", !.result = result, !.ret = -1,
                            !.log = Log(Log(@, "update", FALSE), "rollback", TRUE)])
         ELSE /\ tran' = [tran EXCEPT ![p] = [@ EXCEPT !.op = "update",
                                 !.id = loc[p].messagenum, !.folder = loc[p].target]]
              /\ Set(p, [loc[p] EXCEPT !.pc = "mv_commit", !.result = result,
                            !.log = Log(@, "update", TRUE)])
    /\ UNCHANGED <<rows, nextId, files, dirs>>

\* Lines 291-296: mail_db_update_message_folder; any result but 1 rolls
\* back and is returned as it is.
MoveUpdate(p) ==
    /\ loc[p].pc = "mv_update"
    /\ \E result \in UpdateResults(loc[p].messagenum, loc[p].source) :
         IF result # 1
         THEN /\ tran' = [tran EXCEPT ![p] = TranRollback(@)]
              /\ Set(p, [loc[p] EXCEPT !.pc = "done", !.result = result, !.ret = result,
                            !.log = Log(Log(@, "update", FALSE), "rollback", TRUE)])
         ELSE /\ tran' = [tran EXCEPT ![p] = [@ EXCEPT !.op = "update",
                                 !.id = loc[p].messagenum, !.folder = loc[p].target]]
              /\ Set(p, [loc[p] EXCEPT !.pc = "mv_commit", !.result = result,
                            !.log = Log(@, "update", TRUE)])
    /\ UNCHANGED <<rows, nextId, files, dirs>>

\* Lines 298-304: tran_commit; failure returns -1, success 1.
MoveCommit(p) ==
    /\ loc[p].pc = "mv_commit"
    /\ \/ /\ rows' = TranApply(rows, tran[p])
          /\ Set(p, [loc[p] EXCEPT !.pc = "done", !.result = 0, !.ret = 1,
                        !.log = Log(@, "commit", TRUE)])
       \/ /\ Set(p, [loc[p] EXCEPT !.pc = "done", !.result = 1, !.ret = -1,
                        !.log = Log(@, "commit", FALSE)])
          /\ UNCHANGED rows
    /\ tran' = [tran EXCEPT ![p] = NoTran]
    /\ UNCHANGED <<nextId, files, dirs>>

\* ------------------------------------------------------ specification
Step(p) ==
    \/ StorePrepare(p) \/ StoreBegin(p) \/ StoreInsert(p)
    \/ DataPath(p) \/ DataOpen(p) \/ DataMkdir(p) \/ DataReopen(p)
    \/ DataWrite(p) \/ DataFsync(p) \/ DataClose(p)
    \/ StoreCheck(p) \/ StoreCommit(p)
    \/ CopyPrepare(p) \/ CopyBegin(p) \/ CopyInsert(p)
    \/ CopyLink(p) \/ CopyMkdir(p) \/ CopyRelink(p) \/ CopyCheck(p) \/ CopyCommit(p)
    \/ MoveBegin(p) \/ MoveUpdate(p) \/ MoveCommit(p)

Next == \E p \in Workers : Step(p)

Spec == Init /\ [][Next]_vars
\* ------------------------------------------------------------- claims
\* Positions of the log's entries for a call, and those that succeeded.
Calls(l, c) == {i \in 1..Len(l) : l[i].call = c}
Oks(l, c) == {i \in 1..Len(l) : l[i].call = c /\ l[i].ok}
Fails(l, c) == {i \in 1..Len(l) : l[i].call = c /\ ~l[i].ok}

\* The call of worker p has returned.
Returned(p, kind) == loc[p].pc = "done" /\ loc[p].kind = kind

\* A row with this id is visible: committed, or pending in an open transaction.
Visible(id) == rows[id] # 0 \/ \E q \in Workers : tran[q].op = "insert" /\ tran[q].id = id

\* C1: once every operation has completed, a blob file exists at the path
\* of an assigned message id if and only if a committed row with that id
\* exists (no orphan file, no orphan row).
C1_StoresConsistent ==
    (\A p \in Workers : Ready(p)) =>
        \A id \in Ids : id <= nextId => (files[id].present <=> rows[id] # 0)

\* C2: in store_message and copy_message, a blob step that fails after the
\* insert succeeded rolls the transaction back without ever committing it,
\* returns 0, and leaves neither a visible row nor a file for the new id.
BlobStepFailed(l) ==
    /\ Oks(l.log, "insert") # {}
    /\ \/ l.kind = "store" /\ ~l.store_result
       \/ l.kind = "copy" /\ Calls(l.log, "link") # {} /\ Oks(l.log, "link") = {}

C2_BlobFailureRollsBack ==
    \A p \in Workers :
        (loc[p].pc = "done" /\ BlobStepFailed(loc[p])) =>
            /\ Calls(loc[p].log, "commit") = {}
            /\ Cardinality(Calls(loc[p].log, "rollback")) = 1
            /\ tran[p] = NoTran
            /\ loc[p].ret = 0
            /\ loc[p].messagenum \in Ids
            /\ ~Visible(loc[p].messagenum)
            /\ ~files[loc[p].messagenum].present

\* A store whose blob was created and then failed to close has returned.
C2_Witness ==
    \E p \in Workers :
        /\ Returned(p, "store")
        /\ BlobStepFailed(loc[p])
        /\ Fails(loc[p].log, "close") # {}

\* C3: in store_message, a commit that fails after the blob was written
\* deletes the blob at the new id's path before returning, and returns 0.
StoreCommitFailure(l) ==
    l.kind = "store" /\ Oks(l.log, "close") # {} /\ Fails(l.log, "commit") # {}

C3_StoreCommitFailureDeletesBlob ==
    \A p \in Workers :
        (loc[p].pc = "done" /\ StoreCommitFailure(loc[p])) =>
            /\ ~files[loc[p].messagenum].present
            /\ \E i \in Fails(loc[p].log, "commit") :
                   \E j \in Calls(loc[p].log, "unlink") : i < j
            /\ loc[p].ret = 0

C3_Witness ==
    \E p \in Workers : loc[p].pc = "done" /\ StoreCommitFailure(loc[p])

\* C4: store_message returns a non-zero value only when preparation, begin,
\* insert, blob write and commit all succeeded, and that value is the id its
\* own insert was given; in every other case it returns 0.
StoreAllSucceeded(l) ==
    /\ Oks(l.log, "encrypt") \cup Oks(l.log, "compress") # {}
    /\ Oks(l.log, "begin") # {}
    /\ Oks(l.log, "insert") # {}
    /\ Oks(l.log, "close") # {}
    /\ Oks(l.log, "commit") # {}

C4_StoreReturnValue ==
    \A p \in Workers :
        Returned(p, "store") =>
            IF StoreAllSucceeded(loc[p])
            THEN \E i \in Oks(loc[p].log, "insert") :
                    loc[p].ret = loc[p].log[i].id /\ loc[p].ret # 0
            ELSE loc[p].ret = 0

C4_Witness ==
    \E p \in Workers :
        Returned(p, "store") /\ StoreAllSucceeded(loc[p]) /\ loc[p].ret = 2
\* C5: in store_message and copy_message the row insert precedes every
\* mutation of the blob store for the new id, that mutation precedes the
\* commit, and commit is never called before both have succeeded.
BlobMutations == {"mkdir", "open", "write", "fsync", "close", "link"}

C5_MetadataThenBlobThenCommit ==
    \A p \in Workers :
        loc[p].kind \in {"store", "copy"} =>
            LET l == loc[p].log
                done == IF loc[p].kind = "store" THEN "close" ELSE "link"
            IN  \A i \in 1..Len(l) :
                    /\ l[i].call \in BlobMutations =>
                          /\ \E j \in Oks(l, "insert") : j < i
                          /\ \A k \in Calls(l, "commit") : i < k
                    /\ l[i].call = "commit" =>
                          \E j \in Oks(l, "insert") : \E k \in Oks(l, done) : j < k /\ k < i

\* A copy has linked the new id to the original and then called commit.
C5_Witness ==
    \E p \in Workers :
        /\ loc[p].kind = "copy"
        /\ Oks(loc[p].log, "mkdir") # {}
        /\ Oks(loc[p].log, "link") # {}
        /\ Calls(loc[p].log, "commit") # {}

\* C6: a transaction that was begun is ended by exactly one call, commit or
\* rollback, before the operation returns; when begin fails neither is
\* called; an operation begins at most one transaction.
Ends(l) == Calls(l, "commit") \cup Calls(l, "rollback")

C6_OneEndPerTransaction ==
    \A p \in Workers :
        LET l == loc[p].log
        IN  /\ Cardinality(Calls(l, "begin")) <= 1
            /\ Cardinality(Ends(l)) <= 1
            /\ \A i \in Ends(l) : \E j \in Oks(l, "begin") : j < i
            /\ tran[p].open <=> (Oks(l, "begin") # {} /\ Ends(l) = {})
            /\ loc[p].pc = "done" =>
                  /\ Oks(l, "begin") # {} => Cardinality(Ends(l)) = 1
                  /\ Oks(l, "begin") = {} => Ends(l) = {}
                  /\ ~tran[p].open

\* A move has returned after its update matched no row and was rolled back.
C6_Witness ==
    \E p \in Workers :
        /\ Returned(p, "move")
        /\ Oks(loc[p].log, "begin") # {}
        /\ Calls(loc[p].log, "rollback") # {}

\* C7: a failed preparation step (encrypt or compress in store_message, the
\* open of the original in copy_message) returns failure without beginning
\* a transaction, inserting a row or creating a file or link.
PrepareFailed(l) ==
    Fails(l.log, "encrypt") \cup Fails(l.log, "compress") \cup Fails(l.log, "open_orig") # {}

C7_PrepareFailureTouchesNothing ==
    [][\A p \in Workers :
          PrepareFailed(loc'[p]) =>
              /\ loc'[p].pc = "done"
              /\ loc'[p].ret = 0
              /\ Len(loc'[p].log) = 1
              /\ loc'[p] # loc[p] => UNCHANGED <<rows, nextId, tran, files, dirs>>]_vars

\* A copy of a message whose blob is absent has returned.
C7_Witness ==
    \E p \in Workers :
        /\ Returned(p, "copy")
        /\ PrepareFailed(loc[p])
        /\ ~files[loc[p].original].present
        /\ nextId > 0

\* C8: in copy_message, a commit that fails after the hard link was made
\* returns 0 and does not remove the link: the file at the new id's path
\* still exists when the operation returns.
CopyCommitFailure(l) ==
    l.kind = "copy" /\ Oks(l.log, "link") # {} /\ Fails(l.log, "commit") # {}

C8_CopyCommitFailureKeepsLink ==
    \A p \in Workers :
        (loc[p].pc = "done" /\ CopyCommitFailure(loc[p])) =>
            /\ loc[p].ret = 0
            /\ Calls(loc[p].log, "unlink") = {}
            /\ files[loc[p].messagenum].present
            /\ files[loc[p].messagenum] = files[loc[p].original]

C8_Witness ==
    \E p \in Workers : loc[p].pc = "done" /\ CopyCommitFailure(loc[p])

\* C9: move_message whose source folder does not match the row's folder (the
\* update affects zero rows) rolls back, returns 0 and leaves the row's
\* folder unchanged; no step of move_message changes the blob store.
C9_MoveNotFoundLeavesRow ==
    [][\A p \in Workers :
          (loc'[p] # loc[p] /\ loc'[p].kind = "move") =>
              /\ UNCHANGED <<files, dirs>>
              /\ loc'[p].pc # "done" => rows' = rows
              /\ (/\ loc[p].pc = "mv_update"
                  /\ MatchCount(loc[p].messagenum, loc[p].source) = 0
                  /\ loc'[p].result = 0) =>
                    /\ loc'[p].pc = "done"
                    /\ loc'[p].ret = 0
                    /\ rows' = rows
                    /\ tran'[p] = NoTran
                    /\ Cardinality(Calls(loc'[p].log, "rollback")) = 1
                    /\ Calls(loc'[p].log, "commit") = {}]_vars

\* A move of an existing message out of a folder it is not in has returned 0.
C9_Witness ==
    \E p \in Workers :
        /\ Returned(p, "move")
        /\ loc[p].ret = 0
        /\ rows[loc[p].messagenum] # 0
        /\ rows[loc[p].messagenum] # loc[p].source
        /\ \E id \in Ids : files[id].present

\* C10: for every outcome of begin, of the folder update and of commit,
\* move_message returns -1, 0 or 1; it returns 1 only when exactly one row
\* was affected and the commit succeeded; an update that affects more than
\* one row is reported as the error -1.
C10_MoveReturnRange ==
    \A p \in Workers :
        Returned(p, "move") =>
            /\ loc[p].ret \in {-1, 0, 1}
            /\ loc[p].ret = 1 =>
                  Oks(loc[p].log, "update") # {} /\ Oks(loc[p].log, "commit") # {}
            /\ (Fails(loc[p].log, "update") # {} /\ loc[p].result > 1) => loc[p].ret = -1
\* ====================================================================
\* Credential records (src/objects/auth/datatier.c): auth_data_fetch and
\* auth_data_update_legacy.  In SpecAuth loc[p] is the frame of the auth
\* call worker p runs; strings are held by their lengths, user names as
\* sequences of characters.
\* ====================================================================
STACIE_SALT_LENGTH == 128
STACIE_TOKEN_LENGTH == 64
STACIE_KEY_ROUNDS_MAX == 16777216

\* Lengths the checks of datatier.c compare against.
LegacyHexLength == 128
SaltEncodedLength == 171
VerificationEncodedLength == 86
LegacyTokenLength == 64

\* hex_decode_st: two hexadecimal characters give one byte.
HexDecodedLength(n) == n \div 2

\* base64_decode_mod: four characters give three bytes, without padding.
Base64DecodedLength(n) == (n * 3) \div 4

\* st_search_chr(username, '@', NULL)
HasAt(u) == \E i \in 1..Len(u) : u[i] = "@"

\* The user names and addresses a caller supplies.
Usernames == {<<>>, <<"a">>, <<"A">>, <<"a", "@", "x">>}

\* The rows a lookup can return: column 0 usernum, 1 userid (<<>> for
\* NULL), 2 salt, 3 verification, 4 bonus, 5 legacy (field lengths, 0 for
\* NULL), 6 locked.
AuthRows ==
    [usernum : {0, 7}, userid : {<<>>, <<"a">>},
     salt : {0, 1, SaltEncodedLength - 1, SaltEncodedLength},
     verification : {0, VerificationEncodedLength},
     bonus : {0, STACIE_KEY_ROUNDS_MAX + 1},
     legacy : {0, 1, LegacyHexLength \div 2, LegacyHexLength},
     locked : {0, 1}]

NoAuthRow == [usernum |-> 0, userid |-> <<>>, salt |-> 0, verification |-> 0,
              bonus |-> 0, legacy |-> 0, locked |-> 0]

\* What stmt_get_result hands back: NULL, or a table of count rows of which
\* row is the first.
QueryResults ==
    {[ok |-> FALSE, count |-> 0, row |-> NoAuthRow],
     [ok |-> TRUE, count |-> 0, row |-> NoAuthRow]}
    \cup [ok : {TRUE}, count : {1, 2}, row : AuthRows]

\* A zeroed auth_t holding the caller's user name.
AuthIdle == [kind |-> "none", pc |-> "idle", input |-> <<>>, username |-> <<>>,
             usernum |-> 0, salt |-> 0, verification |-> 0, legacy |-> 0,
             bonus |-> 0, locked |-> 0, count |-> 0, row |-> NoAuthRow,
             stored |-> NoAuthRow, ret |-> 0, log |-> <<>>]

\* The entry of a lookup that returned count rows.
LogQuery(l, call, count) == Append(l, [call |-> call, ok |-> TRUE, id |-> count])

\* Mutant: a lookup without a hit always goes on to the Mailboxes table.
FetchByUseridAlwaysFallsBack(p) ==
    /\ loc[p].pc = "idle"
    /\ \E username \in Usernames, q \in QueryResults :
         LET l == [AuthIdle EXCEPT !.kind = "fetch", !.input = username,
                                   !.username = username]
         IN  IF Len(username) = 0
             THEN Set(p, [l EXCEPT !.pc = "done", !.ret = -1])
             ELSE IF ~q.ok
             THEN Set(p, [l EXCEPT !.pc = "done", !.ret = -1,
                             !.log = Log(@, "by_userid", FALSE)])
             ELSE IF q.count = 0
             THEN Set(p, [l EXCEPT !.pc = "f_address",
                             !.log = LogQuery(@, "by_userid", q.count)])
             ELSE Set(p, [l EXCEPT !.pc = "f_row", !.count = q.count, !.row = q.row,
                             !.log = LogQuery(@, "by_userid", q.count)])
    /\ UNCHANGED <<rows, nextId, tran, files, dirs>>

\* Lines 143-170: the user name is checked and looked up in the Users
\* table; without a hit and without an "at" the user is not found.
FetchByUserid(p) ==
    /\ loc[p].pc = "idle"
    /\ \E username \in Usernames, q \in QueryResults :
         LET l == [AuthIdle EXCEPT !.kind = "fetch", !.input = username,
                                   !.username = username]
         IN  IF Len(username) = 0
             THEN Set(p, [l EXCEPT !.pc = "done", !.ret = -1])
             ELSE IF ~q.ok
             THEN Set(p, [l EXCEPT !.pc = "done", !.ret = -1,
                             !.log = Log(@, "by_userid", FALSE)])
             ELSE IF q.count = 0
             THEN IF ~HasAt(username)
                  THEN Set(p, [l EXCEPT !.pc = "done", !.ret = 1,
                                  !.log = LogQuery(@, "by_userid", q.count)])
                  ELSE Set(p, [l EXCEPT !.pc = "f_address",
                                  !.log = LogQuery(@, "by_userid", q.count)])
             ELSE Set(p, [l EXCEPT !.pc = "f_row", !.count = q.count, !.row = q.row,
                             !.log = LogQuery(@, "by_userid", q.count)])
    /\ UNCHANGED <<rows, nextId, tran, files, dirs>>

\* Lines 172-183: the lookup in the Mailboxes table.
FetchByAddress(p) ==
    /\ loc[p].pc = "f_address"
    /\ \E q \in QueryResults :
         IF ~q.ok
         THEN Set(p, [loc[p] EXCEPT !.pc = "done", !.ret = -1,
                         !.log = Log(@, "by_address", FALSE)])
         ELSE IF q.count = 0
         THEN Set(p, [loc[p] EXCEPT !.pc = "done", !.ret = 1,
                         !.log = LogQuery(@, "by_address", q.count)])
         ELSE Set(p, [loc[p] EXCEPT !.pc = "f_row", !.count = q.count, !.row = q.row,
                         !.log = LogQuery(@, "by_address", q.count)])
    /\ UNCHANGED <<rows, nextId, tran, files, dirs>>

\* Lines 227-246: the fields that are not NULL are decoded into the record.
FetchDecode(l) ==
    [l EXCEPT !.salt = IF l.row.salt # 0 THEN Base64DecodedLength(l.row.salt) ELSE @,
              !.verification = IF l.row.verification # 0
                               THEN Base64DecodedLength(l.row.verification) ELSE @,
              !.bonus = l.row.bonus,
              !.legacy = IF l.row.legacy # 0 THEN HexDecodedLength(l.row.legacy) ELSE @,
              !.locked = l.row.locked]

\* Mutant: a legacy token is accepted whatever else the record holds.
FetchVerdictLegacyOnly(l) ==
    IF l.legacy = 0 /\ (\/ l.salt = 0 \/ l.salt # STACIE_SALT_LENGTH
                        \/ l.verification = 0 \/ l.verification # STACIE_TOKEN_LENGTH
                        \/ l.bonus > STACIE_KEY_ROUNDS_MAX)
    THEN -1
    ELSE IF l.legacy # 0 /\ (\/ l.legacy # LegacyTokenLength
                             \/ l.bonus > STACIE_KEY_ROUNDS_MAX)
    THEN -1
    ELSE 0

\* Mutant: the legacy token is expected to be 32 bytes long.
FetchVerdictLegacy32(l) ==
    IF l.legacy = 0 /\ (\/ l.salt = 0 \/ l.salt # STACIE_SALT_LENGTH
                        \/ l.verification = 0 \/ l.verification # STACIE_TOKEN_LENGTH
                        \/ l.bonus > STACIE_KEY_ROUNDS_MAX)
    THEN -1
    ELSE IF l.legacy # 0 /\ (\/ l.legacy # 32 \/ l.salt # 0
                             \/ l.verification # 0 \/ l.bonus > STACIE_KEY_ROUNDS_MAX)
    THEN -1
    ELSE 0

\* Lines 250-263: the record holds valid STACIE values or a legacy token.
FetchVerdict(l) ==
    IF l.legacy = 0 /\ (\/ l.salt = 0 \/ l.salt # STACIE_SALT_LENGTH
                        \/ l.verification = 0 \/ l.verification # STACIE_TOKEN_LENGTH
                        \/ l.bonus > STACIE_KEY_ROUNDS_MAX)
    THEN -1
    ELSE IF l.legacy # 0 /\ (\/ l.legacy # LegacyTokenLength \/ l.salt # 0
                             \/ l.verification # 0 \/ l.bonus > STACIE_KEY_ROUNDS_MAX)
    THEN -1
    ELSE 0

\* Mutant: the user name the caller supplied is kept.
FetchStoreKeepsInput(l) ==
    IF l.row.usernum = 0
    THEN [l EXCEPT !.pc = "done", !.usernum = 0, !.ret = -1]
    ELSE IF Len(l.row.userid) = 0
    THEN [l EXCEPT !.pc = "done", !.usernum = l.row.usernum, !.ret = -1]
    ELSE LET d == FetchDecode([l EXCEPT !.usernum = l.row.usernum])
         IN  [d EXCEPT !.pc = "done", !.ret = FetchVerdict(d)]

\* Lines 199-225: the user number and the database's user name are stored.
FetchStore(l) ==
    IF l.row.usernum = 0
    THEN [l EXCEPT !.pc = "done", !.usernum = 0, !.ret = -1]
    ELSE IF Len(l.row.userid) = 0
    THEN [l EXCEPT !.pc = "done", !.usernum = l.row.usernum, !.ret = -1]
    ELSE LET d == FetchDecode([l EXCEPT !.usernum = l.row.usernum,
                                        !.username = l.row.userid])
         IN  [d EXCEPT !.pc = "done", !.ret = FetchVerdict(d)]

\* Lines 185-263: exactly one row, which is retrieved, stored and checked.
FetchRow(p) ==
    /\ loc[p].pc = "f_row"
    /\ \E ok \in BOOLEAN :
         IF loc[p].count # 1 \/ ~ok
         THEN Set(p, [loc[p] EXCEPT !.pc = "done", !.ret = -1])
         ELSE Set(p, FetchStore(loc[p]))
    /\ UNCHANGED <<rows, nextId, tran, files, dirs>>
\* Mutant: the length of the salt is not checked.
UpdateInputsValidNoSalt(usernum, legacy, salt, verification, bonus) ==
    /\ ~(legacy = 0 \/ legacy # LegacyHexLength)
    /\ ~(verification = 0 \/ verification # VerificationEncodedLength)
    /\ ~(bonus > STACIE_KEY_ROUNDS_MAX \/ usernum = 0)

\* Lines 28-44: the checks auth_data_update_legacy makes before the update.
UpdateInputsValid(usernum, legacy, salt, verification, bonus) ==
    /\ ~(legacy = 0 \/ legacy # LegacyHexLength)
    /\ ~(salt = 0 \/ salt # SaltEncodedLength)
    /\ ~(verification = 0 \/ verification # VerificationEncodedLength)
    /\ ~(bonus > STACIE_KEY_ROUNDS_MAX \/ usernum = 0)

\* The rows of the Users table the update statement can meet: a legacy
\* account, and one that holds STACIE values already.
StoredRows ==
    {[usernum |-> 7, userid |-> <<"a">>, salt |-> 0, verification |-> 0, bonus |-> 0,
      legacy |-> LegacyHexLength, locked |-> 0],
     [usernum |-> 7, userid |-> <<"a">>, salt |-> SaltEncodedLength,
      verification |-> VerificationEncodedLength, bonus |-> 0, legacy |-> 0, locked |-> 0]}

\* stmt_exec_affected for auth_update_legacy_to_stacie: an error, or the
\* number of rows with this usernum and legacy token (2 for duplicates).
AffectedResults(row, usernum, legacy) ==
    {-1, 2, IF row.usernum = usernum /\ row.legacy = legacy THEN 1 ELSE 0}

\* The row after the statement replaced the legacy token.
Migrated(row, salt, verification, bonus) ==
    [row EXCEPT !.salt = salt, !.verification = verification, !.bonus = bonus,
                !.legacy = 0]

\* Lines 22-79: auth_data_update_legacy.
UpdateLegacy(p) ==
    /\ loc[p].pc = "idle"
    /\ \E usernum \in {0, 7}, legacy \in {0, LegacyHexLength - 1, LegacyHexLength},
          salt \in {0, SaltEncodedLength, SaltEncodedLength + 1},
          verification \in {0, VerificationEncodedLength - 1, VerificationEncodedLength},
          bonus \in {0, STACIE_KEY_ROUNDS_MAX, STACIE_KEY_ROUNDS_MAX + 1},
          row \in StoredRows :
         LET l == [AuthIdle EXCEPT !.kind = "update", !.usernum = usernum,
                                   !.legacy = legacy, !.salt = salt,
                                   !.verification = verification, !.bonus = bonus,
                                   !.row = row, !.stored = row]
         IN  IF ~UpdateInputsValid(usernum, legacy, salt, verification, bonus)
             THEN Set(p, [l EXCEPT !.pc = "done", !.ret = -1])
             ELSE \E affected \in AffectedResults(row, usernum, legacy) :
                    Set(p, [l EXCEPT !.pc = "done", !.count = affected,
                               !.row = IF affected = 1
                                       THEN Migrated(row, salt, verification, bonus)
                                       ELSE row,
                               !.ret = IF affected # 1 THEN -1 ELSE 0,
                               !.log = Log(@, "update", affected = 1)])
    /\ UNCHANGED <<rows, nextId, tran, files, dirs>>

\* The call has returned; the caller is done with the record.
AuthReturn(p) ==
    /\ loc[p].pc = "done"
    /\ loc[p].kind \in {"fetch", "update"}
    /\ Set(p, AuthIdle)
    /\ UNCHANGED <<rows, nextId, tran, files, dirs>>

InitAuth ==
    /\ rows = [i \in Ids |-> 0]
    /\ nextId = 0
    /\ tran = [p \in Workers |-> NoTran]
    /\ files = [i \in Ids |-> NoFile]
    /\ dirs = {}
    /\ loc = [p \in Workers |-> AuthIdle]

NextAuth ==
    \E p \in Workers :
        \/ FetchByUserid(p) \/ FetchByAddress(p) \/ FetchRow(p)
        \/ UpdateLegacy(p) \/ AuthReturn(p)

SpecAuth == InitAuth /\ [][NextAuth]_vars

\* C11: a fetch that returns 0 holds exactly one credential form: a legacy
\* token with neither salt nor verification token, or a complete STACIE
\* triple (salt of STACIE_SALT_LENGTH bytes, verification token of
\* STACIE_TOKEN_LENGTH bytes, bonus <= STACIE_KEY_ROUNDS_MAX) without a
\* legacy token; a row whose decoded fields hold a legacy token together
\* with a salt or verification token, a partial triple without a legacy
\* token, or neither form, makes fetch return -1.
LegacyForm(l) == l.legacy # 0 /\ l.salt = 0 /\ l.verification = 0
StacieForm(l) ==
    /\ l.legacy = 0
    /\ l.salt = 128 /\ l.verification = 64 /\ l.bonus <= 16777216

\* The fetch of worker p read a row and reached the credential check.
Checked(p) ==
    /\ loc[p].kind = "fetch" /\ loc[p].pc = "done"
    /\ loc[p].count = 1 /\ loc[p].usernum # 0 /\ loc[p].username = loc[p].row.userid
    /\ Len(loc[p].row.userid) > 0

\* What the bytes of the row's fields are, whatever the record holds.
RowLegacy(r) == r.legacy \div 2 > 0
RowSalt(r) == (r.salt * 3) \div 4 > 0
RowVerification(r) == (r.verification * 3) \div 4 > 0

C12_LookupOrder ==
    \A p \in Workers :
        loc[p].kind = "fetch" =>
            LET l == loc[p].log
            IN  /\ Len(l) <= 2
                /\ Len(l) >= 1 => l[1].call = "by_userid"
                /\ Len(l) = 2 =>
                      /\ l[2].call = "by_address"
                      /\ l[1].ok /\ l[1].id = 0
                      /\ \E i \in 1..Len(loc[p].input) : loc[p].input[i] = "@"
                /\ (loc[p].pc = "done" /\ Len(l) >= 1 /\ l[1].ok /\ l[1].id = 0) =>
                      IF \A i \in 1..Len(loc[p].input) : loc[p].input[i] # "@"
                      THEN loc[p].ret = 1 /\ Len(l) = 1
                      ELSE /\ Len(l) = 2
                           /\ (l[2].ok /\ l[2].id = 0) => loc[p].ret = 1

\* An address missed both lookups and was reported as not found.
C12_Witness ==
    \E p \in Workers :
        /\ loc[p].kind = "fetch" /\ loc[p].pc = "done" /\ loc[p].ret = 1
        /\ Len(loc[p].log) = 2
        /\ loc[p].log[2].call = "by_address" /\ loc[p].log[2].ok

\* C13: after a successful fetch, by user name or by address, the record's
\* user name is the one stored in the matched row, not the caller's input,
\* and its user number is the row's non-zero user number.
C13_CanonicalUsername ==
    \A p \in Workers :
        (loc[p].kind = "fetch" /\ loc[p].pc = "done" /\ loc[p].ret = 0) =>
            /\ loc[p].username = loc[p].row.userid
            /\ loc[p].usernum = loc[p].row.usernum
            /\ loc[p].usernum # 0

\* An address was resolved to a row whose user name differs from the input.
C13_Witness ==
    \E p \in Workers :
        /\ loc[p].kind = "fetch" /\ loc[p].pc = "done" /\ loc[p].ret = 0
        /\ Len(loc[p].log) = 2
        /\ loc[p].input # loc[p].row.userid
        /\ loc[p].username = <<"a">>

\* C14: update_legacy_to_stacie with a legacy token not 128 long, a salt
\* not 171 long, a verification token not 86 long, bonus rounds above the
\* maximum or a zero user number returns -1 without issuing the update, so
\* the row stays as it was; with valid inputs it issues exactly one update
\* and returns 0 if and only if exactly one row was affected.
C14_UpdateValidatesFirst ==
    \A p \in Workers :
        (loc[p].kind = "update" /\ loc[p].pc = "done") =>
            IF \/ loc[p].legacy # 128 \/ loc[p].salt # 171 \/ loc[p].verification # 86
               \/ loc[p].bonus > 16777216 \/ loc[p].usernum = 0
            THEN /\ loc[p].ret = -1
                 /\ loc[p].log = <<>>
                 /\ loc[p].row = loc[p].stored
            ELSE /\ Cardinality(Calls(loc[p].log, "update")) = 1
                 /\ Len(loc[p].log) = 1
                 /\ loc[p].ret \in {0, -1}
                 /\ loc[p].ret = 0 <=> loc[p].count = 1
                 /\ loc[p].count # 1 => loc[p].row = loc[p].stored

\* An update with a salt that is one character too long was refused.
C14_Witness ==
    \E p \in Workers :
        /\ loc[p].kind = "update" /\ loc[p].pc = "done"
        /\ loc[p].legacy = 128 /\ loc[p].salt = 172 /\ loc[p].verification = 86
        /\ loc[p].usernum # 0 /\ loc[p].bonus = 0
        /\ loc[p].stored.legacy = 128
        /\ loc[p].ret = -1
\* C19 as stated: a fetch that succeeds with a legacy credential returns a
\* legacy token of exactly 32 raw bytes, decoded from the 128 character
\* field.
C19_LegacyToken32Bytes ==
    \A p \in Workers :
        (loc[p].kind = "fetch" /\ loc[p].pc = "done" /\ loc[p].ret = 0
         /\ loc[p].legacy # 0) =>
            loc[p].legacy = 32 /\ loc[p].row.legacy = 128

\* C19, amended: a fetch that succeeds with a legacy credential returns a
\* legacy token of exactly 64 raw bytes, which is what the 128 hexadecimal
\* characters of the stored field decode to; a row whose only credential is
\* a 128 character legacy token passes the length check of fetch.
C19_LegacyToken64Bytes ==
    \A p \in Workers :
        /\ (loc[p].kind = "fetch" /\ loc[p].pc = "done" /\ loc[p].ret = 0
            /\ loc[p].legacy # 0) =>
               loc[p].legacy = 64 /\ loc[p].row.legacy = 128
        /\ (Checked(p) /\ loc[p].row.legacy = 128 /\ loc[p].row.salt = 0
            /\ loc[p].row.verification = 0 /\ loc[p].row.bonus <= 16777216) =>
               loc[p].ret = 0 /\ loc[p].legacy = 64

\* A row with nothing but a 128 character legacy token was fetched.
C19_Witness ==
    \E p \in Workers :
        /\ Checked(p) /\ loc[p].ret = 0
        /\ loc[p].row.legacy = 128 /\ loc[p].legacy = 64
        /\ loc[p].salt = 0 /\ loc[p].verification = 0
C20_RetryOnce ==
    \A p \in Workers :
        loc[p].kind \in {"store", "copy"} =>
            LET l == loc[p].log
                try == IF loc[p].kind = "store" THEN "open" ELSE "link"
                second == {k \in Calls(l, try) : \E i \in Calls(l, try) : i < k}
            IN  /\ Cardinality(Calls(l, try)) <= 2
                /\ Cardinality(Calls(l, "mkdir")) <= 1
                /\ \A m \in Calls(l, "mkdir") :
                      /\ \E i \in Fails(l, try) : i < m
                      /\ Cardinality({i \in Calls(l, try) : i < m}) = 1
                /\ \A k \in second :
                      /\ \E m \in Oks(l, "mkdir") : m < k
                      /\ \E i \in Fails(l, try) : i < k
                /\ ((second \cap Fails(l, try) # {} \/ Fails(l, "mkdir") # {})
                    /\ loc[p].pc = "done") =>
                      /\ loc[p].ret = 0
                      /\ Calls(l, "commit") = {}
                      /\ l[Len(l)].call = "rollback"
                      /\ l[Len(l) - 1].call \in {try, "mkdir"}

\* A copy whose link failed again after the directory was made has returned.
C20_Witness ==
    \E p \in Workers :
        /\ Returned(p, "copy")
        /\ Oks(loc[p].log, "mkdir") # {}
        /\ Cardinality(Fails(loc[p].log, "link")) = 2
\* ====================================================================
\* mail_store_message_data called on its own, for any message number.
\* ====================================================================
\* Line 19: the call with its arguments.
DataCall(p) ==
    /\ Ready(p)
    /\ \E messagenum \in Ids, signet \in BOOLEAN, message \in Bodies :
         Set(p, [Idle EXCEPT !.kind = "data", !.pc = "sd_path",
                             !.messagenum = messagenum, !.signet = signet,
                             !.message = message,
                             !.flags = IF signet THEN {"ENCRYPTED"} ELSE {"COMPRESSED"}])
    /\ UNCHANGED <<rows, nextId, tran, files, dirs>>

NextData ==
    \E p \in Workers :
        \/ DataCall(p) \/ DataPath(p) \/ DataOpen(p) \/ DataMkdir(p) \/ DataReopen(p)
        \/ DataWrite(p) \/ DataFsync(p) \/ DataClose(p)

SpecData == Init /\ [][NextData]_vars

\* The complete file of a call: the header and the whole payload.
Complete(l) ==
    [present |-> TRUE,
     hdr |-> <<"FMESSAGE_MAGIC_1", "FMESSAGE_MAGIC_2", 0, l.flags>>,
     data |-> <<IF l.signet THEN "prime" ELSE "lzo", l.message>>]

\* C16: for a message id without a file, BlobStore.write is all or
\* nothing: on success the file at the path holds the complete header and
\* payload, was flushed and closed, and the path is handed back; on any
\* failure no file is at the path and no path is handed back.
C16_WriteAllOrNothing ==
    \A p \in Workers :
        (Returned(p, "data") /\ ~loc[p].pre.present) =>
            IF loc[p].store_result
            THEN /\ files[loc[p].messagenum] = Complete(loc[p])
                 /\ \E i \in Oks(loc[p].log, "write") :
                        \E j \in Oks(loc[p].log, "fsync") :
                           \E k \in Oks(loc[p].log, "close") : i < j /\ j < k
                 /\ loc[p].fd = -1
                 /\ loc[p].path
            ELSE /\ ~files[loc[p].messagenum].present
                 /\ ~loc[p].path

\* A write that failed in fsync, after the file was created, has returned.
C16_Witness ==
    \E p \in Workers :
        /\ Returned(p, "data") /\ ~loc[p].pre.present
        /\ ~loc[p].store_result
        /\ Fails(loc[p].log, "fsync") # {}

\* C18 as stated: a write for a message id whose file exists leaves that
\* file as it was.
C18_WriteOnce ==
    \A p \in Workers :
        (Returned(p, "data") /\ loc[p].pre.present) =>
            files[loc[p].messagenum] = loc[p].pre

\* C18, amended: the open creates or truncates and is not exclusive.  A
\* write for a message id whose file exists leaves the file as it was only
\* if no open succeeds; once an open succeeded the old contents are gone,
\* and the file holds the new header and payload if the write succeeds and
\* is deleted if it fails.
C18_WriteTruncatesExisting ==
    \A p \in Workers :
        (loc[p].kind = "data" /\ loc[p].pre.present) =>
            /\ (loc[p].pc = "sd_write" /\ Oks(loc[p].log, "open") # {}) =>
                  files[loc[p].messagenum] = [present |-> TRUE, hdr |-> <<>>, data |-> <<>>]
            /\ loc[p].pc = "done" =>
                  IF Oks(loc[p].log, "open") = {}
                  THEN files[loc[p].messagenum] = loc[p].pre /\ ~loc[p].store_result
                  ELSE IF loc[p].store_result
                  THEN files[loc[p].messagenum] = Complete(loc[p])
                  ELSE ~files[loc[p].messagenum].present

\* An existing file was opened again and lost to a failed write.
C18_Witness ==
    \E p \in Workers :
        /\ Returned(p, "data") /\ loc[p].pre.present
        /\ Fails(loc[p].log, "write") # {}
        /\ ~files[loc[p].messagenum].present
\* ====================================================================
\* Two callers running mail_store_message at the same time.
\* ====================================================================
Callers == {"w1", "w2"}

InitConc ==
    /\ rows = [i \in Ids |-> 0]
    /\ nextId = 0
    /\ tran = [p \in Callers |-> NoTran]
    /\ files = [i \in Ids |-> NoFile]
    /\ dirs = {}
    /\ loc = [p \in Callers |-> Idle]

\* Each caller makes one call; the calls overlap in every possible way.
ConcCall(p) == loc[p].pc = "idle" /\ StorePrepare(p)

NextConc ==
    \E p \in Callers :
        \/ ConcCall(p) \/ StoreBegin(p) \/ StoreInsert(p)
        \/ DataPath(p) \/ DataOpen(p) \/ DataMkdir(p) \/ DataReopen(p)
        \/ DataWrite(p) \/ DataFsync(p) \/ DataClose(p)
        \/ StoreCheck(p) \/ StoreCommit(p)

SpecConc == InitConc /\ [][NextConc]_vars

\* The callers inside mail_store_message that hold a message id.
Holding(p) == loc[p].kind = "store" /\ loc[p].pc \notin {"idle", "done"} /\ loc[p].messagenum # 0

\* C15: two running store_message calls never hold the same message id,
\* and every step that changes a blob file is a step of the call holding
\* that file's id, never of the other call.
C15_NoCollision ==
    [][ /\ \A p \in Callers : \A q \in Callers \ {p} :
             (Holding(p) /\ Holding(q)) => loc[p].messagenum # loc[q].messagenum
        /\ \A i \in Ids :
             files'[i] # files[i] =>
                \E p \in Callers :
                    /\ loc'[p] # loc[p]
                    /\ Holding(p) /\ loc[p].messagenum = i
                    /\ \A q \in Callers \ {p} :
                          loc[q].kind = "store" => loc[q].messagenum # i ]_vars

\* One call has failed after creating its file and cleaned up while the
\* other call's finished file is in place and that call is still running.
C15_Witness ==
    \E p \in Callers : \E q \in Callers \ {p} :
        /\ Holding(p) /\ loc[p].pc = "st_commit"
        /\ files[loc[p].messagenum].present
        /\ Returned(q, "store") /\ loc[q].messagenum # 0 /\ loc[q].ret = 0
        /\ Fails(loc[q].log, "write") # {}
        /\ DirOf(loc[q].messagenum) = DirOf(loc[p].messagenum)
\* ====================================================================
\* The cause of the failure that leads to mail_create_directory.
\* ====================================================================
\* The worker has just come back from mail_create_directory; errno still
\* holds the cause of the first open or link failure.
AfterMkdir(p) ==
    /\ loc[p].kind \in {"store", "copy"}
    /\ loc[p].log # <<>>
    /\ loc[p].log[Len(loc[p].log)].call = "mkdir"

\* C21 as stated: ensure_directory is called only after a first open or
\* link that failed because the directory is missing.
C21_OnlyMissingDirectory ==
    \A p \in Workers : AfterMkdir(p) => loc[p].errno = "ENOENT"

\* C21, amended: ensure_directory follows every failed first open or link,
\* whatever its cause, and the second attempt follows whenever
\* ensure_directory succeeded; no failure of the first attempt is returned
\* without calling ensure_directory.
C21_RetryAfterAnyFailure ==
    \A p \in Workers :
        loc[p].kind \in {"store", "copy"} =>
            LET l == loc[p].log
                try == IF loc[p].kind = "store" THEN "open" ELSE "link"
                first == {i \in Calls(l, try) : \A k \in Calls(l, try) : i <= k}
            IN  /\ \A i \in first :
                      ~l[i].ok =>
                         \/ /\ i = Len(l)
                            /\ loc[p].pc \in {"sd_mkdir", "cp_mkdir"}
                            /\ loc[p].errno \in {"ENOENT", "EACCES", "EEXIST"}
                         \/ /\ i < Len(l)
                            /\ l[i + 1].call = "mkdir"
                /\ \A m \in Oks(l, "mkdir") :
                      \/ m = Len(l) /\ loc[p].pc \in {"sd_open2", "cp_link2"}
                      \/ m < Len(l) /\ l[m + 1].call = try

\* The first open failed although the directory exists, and
\* mail_create_directory has been called and the open is about to be
\* tried again.
C21_Witness ==
    \E p \in Workers :
        /\ loc[p].kind = "store"
        /\ loc[p].pc = "sd_open2"
        /\ loc[p].errno = "EACCES"
        /\ DirOf(loc[p].messagenum) \in dirs
        /\ Cardinality(Fails(loc[p].log, "open")) = 1

====
